---- MODULE Spec2Model ----
(***************************************************************************)
(* RedBlackTree<Comparable> of "PA 4/red_black_tree.h" as a state machine. *)
(*                                                                         *)
(* The node graph is a heap of numbered nodes carrying the five fields of  *)
(* struct Node; NIL is the null pointer.  Every private member function is *)
(* an operator from heap to heap that follows the statements of the C++    *)
(* in their order; the public insert and remove are the actions.           *)
(*                                                                         *)
(* A dereference of a null (or deallocated) pointer is undefined           *)
(* behaviour.  The operator that reaches one records the source line in    *)
(* the heap's fault field and every later statement is skipped; the action *)
(* then chooses among the outcomes (UBOutcomes): the process traps, or it  *)
(* goes on in a state of which nothing is known.  In both the tree is no   *)
(* longer operated on.                                                     *)
(*                                                                         *)
(* Node addresses are not observable through the class, so each action     *)
(* renumbers the nodes reachable from the root in preorder (Canon).        *)
(***************************************************************************)
EXTENDS Integers, Sequences, FiniteSets, TLC

\* Values are the Comparable keys 0 .. MaxVal-1.
MaxVal == 4
\* Most nodes a tree holds when inserts and removes are mixed (Spec): an
\* insert that would leave more is not taken.
MaxLive == 4
\* The keys 0 .. MaxInsVal-1 of the runs that only insert (SpecInsert), and
\* the most nodes their trees hold.
MaxInsVal == 8
MaxInsLive == 8
\* Capacity of the node store.
MaxNodes == 11
\* The keys 0 .. MaxDeepVal-1, the most nodes and the number of calls of the
\* runs that build deeper trees with few calls (SpecDeep).
MaxDeepVal == 6
MaxDeepLive == 6
MaxOps == 9
\* The number of calls of the runs that record the recursive calls
\* (SpecDescent).
MaxDescentOps == 10
\* The number of calls of the runs that record the steps of each call
\* (SpecSteps).
MaxStepOps == 7
\* The number of calls of the runs with make_empty (SpecLife).
MaxLifeOps == 6
\* The keys 0 .. MaxAvlVal-1 of the AVLTree (SpecAvl) and 0 .. MaxSetVal-1 of
\* the Set (SpecSet).
MaxAvlVal == 8
MaxSetVal == 5
MaxSetOps == 6
\* Recursive calls allowed to one public operation before it is reported
\* as not terminating.
MaxCalls == 24

Values == 0 .. (MaxVal - 1)
InsValues == 0 .. (MaxInsVal - 1)
DeepValues == 0 .. (MaxDeepVal - 1)
Nodes == 1 .. MaxNodes
NIL == 0
RED == 0
BLACK == 1

VARIABLES
    root,     \* RedBlackTree::_root
    value,    \* Node::value of every node
    color,    \* Node::color
    left,     \* Node::left
    right,    \* Node::right
    parent,   \* Node::parent
    nodes,    \* the allocated nodes
    freed,    \* nodes that were deleted and are still referenced
    fault,    \* "none", or the undefined behaviour the last operation hit
    status,   \* "running", or the outcome of that undefined behaviour
    lastOp,   \* history: the name of the last public call, "none" at first
    lastArg,  \* history: its argument (SpecHistory and SpecInsert record it)
    present,  \* history: the values inserted and not removed since (likewise)
    result,   \* what the last public call gave back to its caller
    ncalls,   \* history: the number of public calls made (SpecDeep counts them)
    calls,    \* history: the recursive calls the last public call made
              \* (SpecDescent records them)
    fixes,    \* history: what the last remove met and did at lines 282-293
              \* (likewise)
    log,      \* history: the steps the last public call took (SpecSteps
              \* records them)
    avl_root, \* AVLTree::_root of "PA 3/avl_tree.h", with the nodes below it
    set_root, \* Set::_root of "PA 5/my_set.h", with the nodes below it
    set_size  \* Set::_size

vars == <<root, value, color, left, right, parent, nodes, freed, fault, status,
          lastOp, lastArg, present, result, ncalls, calls, fixes, log,
          avl_root, set_root, set_size>>

\* No argument recorded.
NoArg == 0 - 1

UBOutcomes == {"trapped", "undefined"}

\* What a public call gives back: nothing (a void function), a value, a
\* bool, or an exception.
Void == [kind |-> "void", value |-> 0, flag |-> FALSE]

Returns(v) == [kind |-> "value", value |-> v, flag |-> FALSE]

Throws(e) == [kind |-> e, value |-> 0, flag |-> FALSE]

ReturnsBool(b) == [kind |-> "bool", value |-> 0, flag |-> b]

\* The steps a public call has taken, by kind; nothing at its start.
NoSteps ==
    [recolor |-> {}, redChild |-> {}, rotated |-> {}, rotation |-> {},
     deleted |-> {}, swapped |-> {}, deletes |-> 0]

\* The null pointer of AVLTree and of Set.  Their nodes have no parent link
\* and are reached through one pointer only, so a pointer is written as the
\* node it names with the nodes below it:
\* [value, height, left, right], or Null.
Null == [null |-> TRUE]

-----------------------------------------------------------------------------
\* The heap as one value, the form the member functions work on.

EmptyHeap ==
    [root |-> NIL,
     value |-> [n \in Nodes |-> 0],
     color |-> [n \in Nodes |-> RED],
     left |-> [n \in Nodes |-> NIL],
     right |-> [n \in Nodes |-> NIL],
     parent |-> [n \in Nodes |-> NIL],
     nodes |-> {},
     freed |-> {},
     fault |-> "none",
     calls |-> 0,
     rots |-> 0,
     fixes |-> {},
     log |-> NoSteps]

Heap ==
    [root |-> root, value |-> value, color |-> color, left |-> left,
     right |-> right, parent |-> parent, nodes |-> nodes, freed |-> freed,
     fault |-> "none", calls |-> 0, rots |-> 0, fixes |-> {}, log |-> NoSteps]

\* A pointer that may be dereferenced.
Valid(h, n) == n # NIL /\ n \notin h.freed

Fault(h, what) == IF h.fault = "none" THEN [h EXCEPT !.fault = what] ELSE h

Ok(h) == h.fault = "none"

\* new Node(value, color): the lowest unused node.
NewNode(h) == IF Nodes \ h.nodes = {} THEN NIL
              ELSE CHOOSE n \in Nodes \ h.nodes : \A m \in Nodes \ h.nodes : n <= m

Alloc(h, n, v, c) ==
    [h EXCEPT !.nodes = @ \cup {n}, !.value[n] = v, !.color[n] = c,
              !.left[n] = NIL, !.right[n] = NIL, !.parent[n] = NIL]

-----------------------------------------------------------------------------
\* struct Node's member functions.

isLeft(h, n) == IF h.parent[n] # NIL THEN n = h.left[h.parent[n]] ELSE FALSE

isRight(h, n) == IF h.parent[n] # NIL THEN n = h.right[h.parent[n]] ELSE FALSE

isLeaf(h, n) == h.left[n] = NIL /\ h.right[n] = NIL

hasColorChild(h, n, c) ==
    \/ (h.left[n] # NIL /\ h.color[h.left[n]] = c)
    \/ (h.right[n] # NIL /\ h.color[h.right[n]] = c)

hasColorChildren(h, n, c) ==
    \/ (isLeaf(h, n) /\ c = BLACK)
    \/ /\ (h.left[n] # NIL /\ h.color[h.left[n]] = c)
       /\ (h.right[n] # NIL /\ h.color[h.right[n]] = c)

sibling(h, n) ==
    IF h.parent[n] = NIL THEN NIL
    ELSE IF isLeft(h, n) THEN h.right[h.parent[n]] ELSE h.left[h.parent[n]]

\* The node that stands, in heap x, where p stood in heap h.
inPlaceOf(h, p, x) ==
    IF h.parent[p] = NIL THEN x.root
    ELSE IF h.left[h.parent[p]] = p THEN x.left[h.parent[p]]
    ELSE x.right[h.parent[p]]

\* The nodes in preorder; fuel bounds the walk should the links form a cycle.
RECURSIVE preorder(_, _, _)
preorder(h, n, fuel) ==
    IF n = NIL \/ fuel = 0 THEN <<>>
    ELSE <<n>> \o preorder(h, h.left[n], fuel - 1) \o preorder(h, h.right[n], fuel - 1)

Range(s) == {s[i] : i \in 1 .. Len(s)}

\* In-order sequence of the values below n.
RECURSIVE inorder(_, _, _)
inorder(h, n, fuel) ==
    IF n = NIL \/ fuel = 0 THEN <<>>
    ELSE inorder(h, h.left[n], fuel - 1) \o <<h.value[n]>> \o inorder(h, h.right[n], fuel - 1)

\* Every child reached from the root names its parent, and the root none.
parentsAgree(h) ==
    /\ h.root # NIL => h.parent[h.root] = NIL
    /\ \A n \in Range(preorder(h, h.root, MaxNodes + 1)) :
          /\ h.left[n] # NIL => h.parent[h.left[n]] = n
          /\ h.right[n] # NIL => h.parent[h.right[n]] = n

\* A rotation about node from heap h to heap r.h with r.ret returned, seen
\* from outside: y is the child that goes up, inner the subtree that
\* changes sides.
rotationRecord(kind, h, node, r) ==
    LET y == IF kind = "left" THEN h.right[node] ELSE h.left[node]
        inner == IF kind = "left" THEN h.left[y] ELSE h.right[y]
        down(x, n) == IF kind = "left" THEN x.left[n] ELSE x.right[n]
        up(x, n) == IF kind = "left" THEN x.right[n] ELSE x.left[n]
    IN [kind |-> kind,
        atRoot |-> h.parent[node] = NIL,
        hasInner |-> inner # NIL,
        sameCount |-> Len(preorder(r.h, r.h.root, MaxNodes + 1))
                        = Len(preorder(h, h.root, MaxNodes + 1)),
        sameFields |-> r.h.value = h.value /\ r.h.color = h.color,
        sameOrder |-> inorder(r.h, r.h.root, MaxNodes + 1)
                        = inorder(h, h.root, MaxNodes + 1),
        returnsChild |-> r.ret = y,
        inPlace |-> inPlaceOf(h, node, r.h) = y,
        nodeBelow |-> down(r.h, y) = node,
        innerMoved |-> up(r.h, node) = inner,
        parents |-> parentsAgree(r.h)]

\* The rotation is recorded when it was made.
recordRotation(kind, h, node, r) ==
    IF Ok(h) /\ Ok(r.h)
    THEN [h |-> [r.h EXCEPT !.log.rotation = @ \cup {rotationRecord(kind, h, node, r)}],
          ret |-> r.ret]
    ELSE r

-----------------------------------------------------------------------------
\* Rotations.  Each returns the heap and the returned pointer (temp).
\* The statements of a function are local operators a, b, c, ... in source
\* order, each from the heap before the statement to the heap after it.

\* rotateLeft without line 151: the node rotated about is not hung below.
rotateLeftDropsNode(h, node) ==
    IF ~Ok(h) THEN [h |-> h, ret |-> NIL]
    ELSE IF ~Valid(h, node) THEN [h |-> Fault(h, "rotateLeft:140 node"), ret |-> NIL]
    ELSE IF ~Valid(h, h.right[node]) THEN [h |-> Fault(h, "rotateLeft:141 temp"), ret |-> NIL]
    ELSE
      LET temp == h.right[node]
          a(x) == [x EXCEPT !.right[node] = x.left[temp]]
          b(x) == IF x.left[temp] # NIL THEN [x EXCEPT !.parent[x.left[temp]] = node] ELSE x
          c(x) == [x EXCEPT !.parent[temp] = x.parent[node]]
          d(x) == IF x.parent[node] = NIL THEN [x EXCEPT !.root = temp]
                  ELSE IF isLeft(x, node) THEN [x EXCEPT !.left[x.parent[node]] = temp]
                  ELSE IF isRight(x, node) THEN [x EXCEPT !.right[x.parent[node]] = temp]
                  ELSE x
          f(x) == [x EXCEPT !.parent[node] = temp, !.rots = @ + 1]
      IN [h |-> f(d(c(b(a(h))))), ret |-> temp]

rotateLeftCode(h, node) ==
    IF ~Ok(h) THEN [h |-> h, ret |-> NIL]
    ELSE IF ~Valid(h, node) THEN [h |-> Fault(h, "rotateLeft:140 node"), ret |-> NIL]
    ELSE IF ~Valid(h, h.right[node]) THEN [h |-> Fault(h, "rotateLeft:141 temp"), ret |-> NIL]
    ELSE
      LET temp == h.right[node]
          a(x) == [x EXCEPT !.right[node] = x.left[temp]]
          b(x) == IF x.left[temp] # NIL THEN [x EXCEPT !.parent[x.left[temp]] = node] ELSE x
          c(x) == [x EXCEPT !.parent[temp] = x.parent[node]]
          d(x) == IF x.parent[node] = NIL THEN [x EXCEPT !.root = temp]
                  ELSE IF isLeft(x, node) THEN [x EXCEPT !.left[x.parent[node]] = temp]
                  ELSE IF isRight(x, node) THEN [x EXCEPT !.right[x.parent[node]] = temp]
                  ELSE x
          e(x) == [x EXCEPT !.left[temp] = node]
          f(x) == [x EXCEPT !.parent[node] = temp, !.rots = @ + 1]
      IN [h |-> f(e(d(c(b(a(h)))))), ret |-> temp]

\* rotateRight returning the node it was given.
rotateRightReturnsNode(h, node) ==
    IF ~Ok(h) THEN [h |-> h, ret |-> NIL]
    ELSE IF ~Valid(h, node) THEN [h |-> Fault(h, "rotateRight:163 node"), ret |-> NIL]
    ELSE IF ~Valid(h, h.left[node]) THEN [h |-> Fault(h, "rotateRight:164 temp"), ret |-> NIL]
    ELSE
      LET temp == h.left[node]
          a(x) == [x EXCEPT !.left[node] = x.right[temp]]
          b(x) == IF x.right[temp] # NIL THEN [x EXCEPT !.parent[x.right[temp]] = node] ELSE x
          c(x) == [x EXCEPT !.parent[temp] = x.parent[node]]
          d(x) == IF x.parent[node] = NIL THEN [x EXCEPT !.root = temp]
                  ELSE IF isRight(x, node) THEN [x EXCEPT !.right[x.parent[node]] = temp]
                  ELSE IF isLeft(x, node) THEN [x EXCEPT !.left[x.parent[node]] = temp]
                  ELSE x
          e(x) == [x EXCEPT !.right[temp] = node]
          f(x) == [x EXCEPT !.parent[node] = temp, !.rots = @ + 1]
      IN [h |-> f(e(d(c(b(a(h)))))), ret |-> node]

rotateRightCode(h, node) ==
    IF ~Ok(h) THEN [h |-> h, ret |-> NIL]
    ELSE IF ~Valid(h, node) THEN [h |-> Fault(h, "rotateRight:163 node"), ret |-> NIL]
    ELSE IF ~Valid(h, h.left[node]) THEN [h |-> Fault(h, "rotateRight:164 temp"), ret |-> NIL]
    ELSE
      LET temp == h.left[node]
          a(x) == [x EXCEPT !.left[node] = x.right[temp]]
          b(x) == IF x.right[temp] # NIL THEN [x EXCEPT !.parent[x.right[temp]] = node] ELSE x
          c(x) == [x EXCEPT !.parent[temp] = x.parent[node]]
          d(x) == IF x.parent[node] = NIL THEN [x EXCEPT !.root = temp]
                  ELSE IF isRight(x, node) THEN [x EXCEPT !.right[x.parent[node]] = temp]
                  ELSE IF isLeft(x, node) THEN [x EXCEPT !.left[x.parent[node]] = temp]
                  ELSE x
          e(x) == [x EXCEPT !.right[temp] = node]
          f(x) == [x EXCEPT !.parent[node] = temp, !.rots = @ + 1]
      IN [h |-> f(e(d(c(b(a(h)))))), ret |-> temp]

rotateLeft(h, node) == recordRotation("left", h, node, rotateLeftCode(h, node))

rotateRight(h, node) == recordRotation("right", h, node, rotateRightCode(h, node))

\* node->color = c, a fault when node is null.
SetColor(h, n, c, where) ==
    IF ~Ok(h) THEN h
    ELSE IF ~Valid(h, n) THEN Fault(h, where)
    ELSE [h EXCEPT !.color[n] = c]

-----------------------------------------------------------------------------
\* search, contains

RECURSIVE search(_, _, _)
search(h, r, v) ==
    IF r = NIL THEN NIL
    ELSE IF h.value[r] = v THEN r
    ELSE IF h.value[r] < v THEN search(h, h.right[r], v)
    ELSE search(h, h.left[r], v)

contains(h, v) == search(h, h.root, v) # NIL

-----------------------------------------------------------------------------
\* insert(Node*, const Comparable&), lines 315-399.

\* node->left->color = c and node->right->color = c
SetLeftColor(h, n, c, where) ==
    IF ~Ok(h) THEN h
    ELSE IF ~Valid(h, n) THEN Fault(h, where)
    ELSE SetColor(h, h.left[n], c, where)

SetRightColor(h, n, c, where) ==
    IF ~Ok(h) THEN h
    ELSE IF ~Valid(h, n) THEN Fault(h, where)
    ELSE SetColor(h, h.right[n], c, where)

\* rotate(node->parent) for the node a rotation has just returned
rotateLeftAtParent(r) ==
    IF ~Ok(r.h) THEN r ELSE rotateLeft(r.h, r.h.parent[r.ret])

rotateRightAtParent(r) ==
    IF ~Ok(r.h) THEN r ELSE rotateRight(r.h, r.h.parent[r.ret])

\* The same with the two children left in their colours.
recolorSubrootOnly(r, where) ==
    [h |-> SetColor(r.h, r.ret, BLACK, where), ret |-> r.ret]

\* node->color = BLACK; node->left->color = node->right->color = RED
\* for the node a rotation has returned (335-336, 353-354, 367-368, ...)
recolorSubroot(r, where) ==
    [h |-> SetLeftColor(SetRightColor(SetColor(r.h, r.ret, BLACK, where),
                                      r.ret, RED, where),
                        r.ret, RED, where),
     ret |-> r.ret]

\* Lines 326-338, after the new node was linked below node: done tells that
\* the function returns here.
attachedLeft(h, node) ==
    IF h.color[node] = BLACK THEN [h |-> h, done |-> TRUE]
    ELSE IF sibling(h, node) = NIL THEN
      [h |-> recolorSubroot(IF isLeft(h, node) THEN rotateRight(h, h.parent[node])
                            ELSE rotateLeftAtParent(rotateRight(h, node)),
                            "insert:335").h,
       done |-> TRUE]
    ELSE [h |-> h, done |-> FALSE]

\* Lines 344-356, the mirror image.
attachedRight(h, node) ==
    IF h.color[node] = BLACK THEN [h |-> h, done |-> TRUE]
    ELSE IF sibling(h, node) = NIL THEN
      [h |-> recolorSubroot(IF isRight(h, node) THEN rotateLeft(h, h.parent[node])
                            ELSE rotateRightAtParent(rotateLeft(h, node)),
                            "insert:353").h,
       done |-> TRUE]
    ELSE [h |-> h, done |-> FALSE]

\* Line 323 without line 324: the new node is not told its parent.
linkLeftNoParent(h, node, n, v) ==
    [Alloc(h, n, v, RED) EXCEPT !.left[node] = n]

\* Lines 323-324: node->left = new Node(value); node->left->parent = node;
linkLeft(h, node, n, v) ==
    [Alloc(h, n, v, RED) EXCEPT !.left[node] = n, !.parent[n] = node]

\* Lines 342-343.
linkRight(h, node, n, v) ==
    [Alloc(h, n, v, RED) EXCEPT !.right[node] = n, !.parent[n] = node]

\* Lines 316-358: up to the first return, or to the colour flip.
insertHead(h, node, v) ==
    IF h.root = NIL THEN
      IF NewNode(h) = NIL THEN [h |-> Fault(h, "capacity"), done |-> TRUE]
      ELSE [h |-> [Alloc(h, NewNode(h), v, BLACK) EXCEPT !.root = NewNode(h)], done |-> TRUE]
    ELSE IF ~Valid(h, node) THEN [h |-> Fault(h, "insert:319 node"), done |-> TRUE]
    ELSE IF h.value[node] = v THEN [h |-> h, done |-> TRUE]
    ELSE IF h.value[node] > v THEN
      IF h.left[node] # NIL THEN [h |-> h, done |-> FALSE]
      ELSE IF NewNode(h) = NIL THEN [h |-> Fault(h, "capacity"), done |-> TRUE]
      ELSE attachedLeft(linkLeft(h, node, NewNode(h), v), node)
    ELSE
      IF h.right[node] # NIL THEN [h |-> h, done |-> FALSE]
      ELSE IF NewNode(h) = NIL THEN [h |-> Fault(h, "capacity"), done |-> TRUE]
      ELSE attachedRight(linkRight(h, node, NewNode(h), v), node)

\* Lines 361-362: the colour flip of a node with two red children.
colorFlip(h, node) ==
    [h EXCEPT !.color = [@ EXCEPT ![node] = RED, ![h.right[node]] = BLACK,
                                  ![h.left[node]] = BLACK]]

\* The child of the subroot r.ret that the code recurses into after a pattern.
leftOf(r) == IF Ok(r.h) THEN r.h.left[r.ret] ELSE NIL

rightOf(r) == IF Ok(r.h) THEN r.h.right[r.ret] ELSE NIL

patternLL(r) == [h |-> r.h, pattern |-> "LL", top |-> r.ret, next |-> leftOf(r)]

patternRR(r) == [h |-> r.h, pattern |-> "RR", top |-> r.ret, next |-> leftOf(r)]

patternLR(r) == [h |-> r.h, pattern |-> "LR", top |-> r.ret, next |-> leftOf(r)]

patternRL(r) == [h |-> r.h, pattern |-> "RL", top |-> r.ret, next |-> rightOf(r)]

\* Lines 364-395: the rotation pattern after a colour flip has put a red node
\* under a red parent.  pattern is "none" when the code falls through to 398;
\* otherwise next is the node the code recurses into.
flipRotate(h, node) ==
    IF ~(h.parent[node] # NIL /\ h.color[h.parent[node]] = RED)
    THEN [h |-> h, pattern |-> "none", top |-> NIL, next |-> NIL]
    ELSE IF isLeft(h, node) /\ isLeft(h, h.parent[node]) THEN
      patternLL(recolorSubroot(rotateRight(h, h.parent[h.parent[node]]), "insert:367"))
    ELSE IF isRight(h, node) /\ isRight(h, h.parent[node]) THEN
      patternRR(recolorSubroot(rotateLeft(h, h.parent[h.parent[node]]), "insert:374"))
    ELSE IF isRight(h, node) /\ isLeft(h, h.parent[node]) THEN
      patternLR(recolorSubroot(rotateRightAtParent(rotateLeft(h, h.parent[node])), "insert:382"))
    ELSE IF isLeft(h, node) /\ isRight(h, h.parent[node]) THEN
      patternRL(recolorSubroot(rotateLeftAtParent(rotateRight(h, h.parent[node])), "insert:390"))
    ELSE [h |-> h, pattern |-> "none", top |-> NIL, next |-> NIL]

\* Line 398 with the descent left out: the call is repeated on node itself.
insertDescendStays(h, node, v) == node

\* Line 398: the child the descent continues into.
insertDescend(h, node, v) == IF h.value[node] > v THEN h.left[node] ELSE h.right[node]

RECURSIVE insertRec(_, _, _)

\* The subtree of top has a black subroot with two children, both red.
blackOverReds(h, top) ==
    /\ Ok(h)
    /\ top # NIL
    /\ h.color[top] = BLACK
    /\ h.left[top] # NIL /\ h.color[h.left[top]] = RED
    /\ h.right[top] # NIL /\ h.color[h.right[top]] = RED

\* A rotation case of insert, recorded: which case it was, whether it left
\* a black subroot over two red children, and whether the rest of the call
\* changed anything after it (x is the heap at the end of the case, y the one
\* at the end of the call).
recordRotated(kind, x, top, y) ==
    [y EXCEPT !.log.rotated =
       @ \cup {[kind |-> kind, shape |-> blackOverReds(x, top), last |-> y = x]}]

\* Lines 369, 376, 384 and 392: the call on the child of the new subroot.
insertBelowPattern(f, v) ==
    recordRotated(f.pattern, f.h, f.top, insertRec(f.h, f.next, v))

\* Lines 360-398, entered with the result of insertHead.
insertTail(a, node, v) ==
    IF a.done \/ ~Ok(a.h) THEN a.h
    ELSE IF hasColorChildren(a.h, node, RED) THEN
      LET cont(f) == IF f.pattern = "none"
                     THEN insertRec(f.h, insertDescend(f.h, node, v), v)
                     ELSE insertBelowPattern(f, v)
      IN cont(flipRotate(colorFlip(a.h, node), node))
    ELSE insertRec(a.h, insertDescend(a.h, node, v), v)

\* The call attaches the new leaf to node, which is red and has no sibling
\* (lines 328 and 346).
attachesNoSibling(h, node, v) ==
    /\ h.root # NIL
    /\ Valid(h, node)
    /\ h.value[node] # v
    /\ (IF h.value[node] > v THEN h.left[node] ELSE h.right[node]) = NIL
    /\ NewNode(h) # NIL
    /\ h.color[node] = RED
    /\ sibling(h, node) = NIL

\* One call of insert(Node*, value) in heap h: a is what lines 316-358 gave.
insertCall(h, node, a, v) ==
    IF attachesNoSibling(h, node, v)
    THEN recordRotated("no sibling", a.h,
                       IF h.parent[node] = NIL THEN NIL
                       ELSE inPlaceOf(h, h.parent[node], a.h),
                       insertTail(a, node, v))
    ELSE insertTail(a, node, v)

insertStep(h, node, v) == insertCall(h, node, insertHead(h, node, v), v)

insertRec(h, node, v) ==
    IF ~Ok(h) THEN h
    ELSE IF h.calls >= MaxCalls THEN Fault(h, "no termination")
    ELSE insertStep([h EXCEPT !.calls = @ + 1], node, v)

\* Line 477 left out: the root keeps the colour the descent gave it.
blackenRootSkipped(h, where) == h

\* this->_root->color = Color::BLACK, line 477
blackenRoot(h, where) == SetColor(h, h.root, BLACK, where)

\* insert(const Comparable&), lines 475-478.
insert(h, v) == blackenRoot(insertRec(h, h.root, v), "insert:477")

-----------------------------------------------------------------------------
\* remove(Node*, const Comparable&), lines 261-313, and removeNode, 245-259.
\*
\* The parameter value is a reference.  The public remove binds it to the
\* caller's object; removeNode binds it to replace->value, a field of a node.
\* A reference is [n |-> the node whose value field it names, or NIL,
\*                 v |-> the caller's value when n is NIL].

ConstRef(v) == [n |-> NIL, v |-> v]

NodeRef(n) == [n |-> n, v |-> 0]

RefValid(h, ref) == ref.n = NIL \/ ref.n \notin h.freed

val(h, ref) == IF ref.n = NIL THEN ref.v ELSE h.value[ref.n]

\* find_min(Node*), lines 238-243.
RECURSIVE find_min(_, _)
find_min(h, n) ==
    IF n # NIL /\ h.left[n] # NIL THEN find_min(h, h.left[n]) ELSE n

\* node->value < value ? node->right : node->left
removeDescend(h, node, ref) ==
    IF h.value[node] < val(h, ref) THEN h.right[node] ELSE h.left[node]

\* Lines 285-288: the close nephew is red.
removeCloseRed(h, node, sib, closeNibling) ==
    LET a(x) == IF isLeft(x, closeNibling) THEN rotateRight(x, sib) ELSE rotateLeft(x, sib)
        b(r) == IF ~Ok(r.h) THEN r
                ELSE IF isLeft(r.h, r.ret) THEN rotateRight(r.h, r.h.parent[node])
                ELSE rotateLeft(r.h, r.h.parent[node])
        c(x) == SetColor(x, node, RED, "remove:287")
        d(x) == SetColor(x, x.parent[node], BLACK, "remove:288")
    IN d(c(b(a(h)).h))

\* Lines 290-292: the distant nephew is red.
removeDistantRed(h, node, sib, distantNibling) ==
    LET a(x) == IF isLeft(x, sib) THEN rotateRight(x, x.parent[node])
                ELSE rotateLeft(x, x.parent[node])
        b(r) == SetColor(r.h, r.ret, RED, "remove:291")
        c(x) == SetColor(x, node, RED, "remove:291")
        d(x) == SetColor(x, distantNibling, BLACK, "remove:292")
        e(x) == SetColor(x, x.parent[node], BLACK, "remove:292")
    IN e(d(c(b(a(h)))))

\* The numbers of black nodes on the paths from n to an absent child.
RECURSIVE BlackCounts(_, _, _)
BlackCounts(h, n, fuel) ==
    IF n = NIL \/ fuel = 0 THEN {0}
    ELSE {k + (IF h.color[n] = BLACK THEN 1 ELSE 0) :
            k \in BlackCounts(h, h.left[n], fuel - 1) \cup BlackCounts(h, h.right[n], fuel - 1)}

\* A red node below n (n included) has a red child.
RECURSIVE RedRedBelow(_, _, _)
RedRedBelow(h, n, fuel) ==
    IF n = NIL \/ fuel = 0 THEN FALSE
    ELSE \/ h.color[n] = RED /\ hasColorChild(h, n, RED)
         \/ RedRedBelow(h, h.left[n], fuel - 1)
         \/ RedRedBelow(h, h.right[n], fuel - 1)

\* The subtree of n has equal black heights and no red node with a red child.
RulesBelow(h, n) ==
    /\ Cardinality(BlackCounts(h, n, MaxNodes + 1)) = 1
    /\ ~RedRedBelow(h, n, MaxNodes + 1)

closeNiblingOf(h, node, sib) == IF isLeft(h, node) THEN h.right[sib] ELSE h.left[sib]

\* The children of the sibling on the side of node and on the other side.
nearNephew(h, node, sib) == IF isLeft(h, node) THEN h.left[sib] ELSE h.right[sib]

farNephew(h, node, sib) == IF isLeft(h, node) THEN h.right[sib] ELSE h.left[sib]

\* What lines 282-293 met in heap h and left in heap x: the colours of the
\* two nephews, the rotations made, and whether the subtree that hung at the
\* parent of node kept the rules.
fixupRecord(h, node, sib, x) ==
    [nearRed |-> nearNephew(h, node, sib) # NIL /\ h.color[nearNephew(h, node, sib)] = RED,
     farRed |-> farNephew(h, node, sib) # NIL /\ h.color[farNephew(h, node, sib)] = RED,
     rotations |-> x.rots - h.rots,
     returned |-> Ok(x),
     rulesBefore |-> RulesBelow(h, h.parent[node]),
     rulesAfter |-> Ok(x) /\ RulesBelow(x, inPlaceOf(h, h.parent[node], x))]

recordFixup(h, node, sib, x) ==
    [x EXCEPT !.fixes = @ \cup {fixupRecord(h, node, sib, x)}]

\* Lines 282-293: the sibling of node has a child that is not black.
removeFixupCode(h, node, sib) ==
    IF ~Valid(h, closeNiblingOf(h, node, sib)) THEN Fault(h, "remove:283 closeNibling")
    ELSE IF h.color[closeNiblingOf(h, node, sib)] = RED
      THEN removeCloseRed(h, node, sib, closeNiblingOf(h, node, sib))
    ELSE IF ~Valid(h, sibling(h, closeNiblingOf(h, node, sib)))
      THEN Fault(h, "remove:289 distantNibling")
    ELSE IF h.color[sibling(h, closeNiblingOf(h, node, sib))] = RED
      THEN removeDistantRed(h, node, sib, sibling(h, closeNiblingOf(h, node, sib)))
    ELSE h

removeFixup(h, node, sib) == recordFixup(h, node, sib, removeFixupCode(h, node, sib))

\* Lines 296-306: node has a red child.
removeRedChild(h, node) ==
    IF h.color[node] = BLACK THEN
      LET a(x) == IF isRight(x, node) THEN rotateRight(x, x.parent[node]).h
                  ELSE IF isLeft(x, node) THEN rotateLeft(x, x.parent[node]).h
                  ELSE x
          b(x) == SetColor(x, node, BLACK, "remove:301")
          c(x) == IF Ok(x) /\ node # x.root THEN
                    IF ~Valid(x, x.parent[node]) THEN Fault(x, "remove:303 parent")
                    ELSE SetColor(x, x.parent[x.parent[node]], BLACK, "remove:303 grandparent")
                  ELSE x
          d(x) == IF Ok(x) /\ node # x.root THEN SetColor(x, x.parent[node], RED, "remove:304")
                  ELSE x
      IN d(c(b(a(h))))
    ELSE h

\* The numbers of black nodes on the paths from n to each absent child below
\* it, from left to right.
RECURSIVE PathBlacks(_, _, _)
PathBlacks(h, n, fuel) ==
    IF n = NIL \/ fuel = 0 THEN <<0>>
    ELSE LET add(s) == [i \in 1 .. Len(s) |-> s[i] + (IF h.color[n] = BLACK THEN 1 ELSE 0)]
         IN add(PathBlacks(h, h.left[n], fuel - 1) \o PathBlacks(h, h.right[n], fuel - 1))

\* What lines 273-274 met in heap h and left in heap x: the colour of the
\* parent, whether the tree kept the rules before, and whether the paths
\* through the parent kept their black nodes.
recolorRecord(h, node, x) ==
    [parentRed |-> h.color[h.parent[node]] = RED,
     rulesBefore |-> RulesBelow(h, h.root),
     pathsSame |-> PathBlacks(h, h.parent[node], MaxNodes + 1)
                     = PathBlacks(x, h.parent[node], MaxNodes + 1)]

recordRecolor(h, node, x) ==
    [x EXCEPT !.log.recolor = @ \cup {recolorRecord(h, node, x)}]

\* Lines 273-274: parent black, node and sibling red.
removeRecolorCode(h, node, sib) ==
    [h EXCEPT !.color = [@ EXCEPT ![h.parent[node]] = BLACK, ![node] = RED, ![sib] = RED]]

removeRecolor(h, node, sib) == recordRecolor(h, node, removeRecolorCode(h, node, sib))

\* delete node, recorded: whether the node had no child, and whether it had
\* been deleted before.
Delete(h, node) ==
    [h EXCEPT !.freed = @ \cup {node},
              !.log.deleted = @ \cup {[leaf |-> isLeaf(h, node), again |-> node \in h.freed]},
              !.log.deletes = @ + 1]

\* Line 257: swap(node->value, replace->value)
swapValues(h, node, replace) ==
    [h EXCEPT !.value = [@ EXCEPT ![node] = h.value[replace], ![replace] = h.value[node]]]

\* Line 256: the node whose value replaces that of node.
replaceOf(h, node) ==
    IF h.right[node] # NIL THEN find_min(h, h.right[node]) ELSE h.left[node]

RECURSIVE removeRec(_, _, _)
RECURSIVE removeNode(_, _)

\* if (node->value == value) removeNode(node); else remove(child, value);
\* (lines 267-270, 275-278 and 309-312)
removeHere(h, node, ref) ==
    IF ~Ok(h) THEN h
    ELSE IF ~Valid(h, node) THEN Fault(h, "remove:309 node")
    ELSE IF ~RefValid(h, ref) THEN Fault(h, "remove:309 value")
    ELSE IF h.value[node] = val(h, ref) THEN removeNode(h, node)
    ELSE removeRec(h, removeDescend(h, node, ref), ref)

\* Line 294: remove(child, value) after the fixup.
removeBelow(h, node, ref) ==
    IF ~Ok(h) THEN h
    ELSE IF ~RefValid(h, ref) THEN Fault(h, "remove:294 value")
    ELSE removeRec(h, removeDescend(h, node, ref), ref)

\* Lines 256-258 for a node with a child, recorded: how many children it
\* had, whether replace was the leftmost node of its right subtree,
\* whether the two values changed places (x is the heap after line 257),
\* and whether the node was still allocated when the call of line 258
\* came back with heap y.
recordSwap(h, node, replace, x, y) ==
    [y EXCEPT !.log.swapped = @ \cup
       {[two |-> h.left[node] # NIL /\ h.right[node] # NIL,
         successor |-> /\ h.right[node] # NIL
                       /\ replace = find_min(h, h.right[node])
                       /\ h.left[replace] = NIL,
         exchanged |-> /\ x.value[node] = h.value[replace]
                       /\ x.value[replace] = h.value[node],
         kept |-> node \notin y.freed]}]

\* removeNode without the test of line 246: the node is detached and deleted
\* whether or not it has children.
removeNodeDetachesAny(h, node) ==
    IF isLeft(h, node)
    THEN Delete([h EXCEPT !.left[h.parent[node]] = NIL], node)
    ELSE IF ~Valid(h, h.parent[node]) THEN Fault(h, "removeNode:250 parent")
    ELSE Delete([h EXCEPT !.right[h.parent[node]] = NIL], node)

removeNode(h, node) ==
    IF isLeaf(h, node) THEN
      IF isLeft(h, node)
      THEN Delete([h EXCEPT !.left[h.parent[node]] = NIL], node)
      ELSE IF ~Valid(h, h.parent[node]) THEN Fault(h, "removeNode:250 parent")
      ELSE Delete([h EXCEPT !.right[h.parent[node]] = NIL], node)
    ELSE
      recordSwap(h, node, replaceOf(h, node), swapValues(h, node, replaceOf(h, node)),
                 removeRec(swapValues(h, node, replaceOf(h, node)),
                           replaceOf(h, node), NodeRef(replaceOf(h, node))))

\* The node whose subtree lines 296-306 work in: the parent of node, or node
\* when it is the root.
topOf(h, node) == IF h.parent[node] = NIL THEN node ELSE h.parent[node]

\* What lines 296-306 met in heap h at a black node and left in heap x, and
\* what the rest of the call (lines 309-312) made of it in heap y.
redChildRecord(h, node, x, y) ==
    [rulesBefore |-> RulesBelow(h, h.root),
     rotatesAbsent |-> \/ isRight(h, node) /\ h.left[h.parent[node]] = NIL
                       \/ isLeft(h, node) /\ h.right[h.parent[node]] = NIL,
     colours |-> /\ Ok(x)
                 /\ x.color[node] = BLACK
                 /\ node # x.root => /\ x.color[x.parent[x.parent[node]]] = BLACK
                                      /\ x.color[x.parent[node]] = RED,
     pathsSame |-> /\ Ok(x)
                   /\ PathBlacks(h, topOf(h, node), MaxNodes + 1)
                        = PathBlacks(x, inPlaceOf(h, topOf(h, node), x), MaxNodes + 1),
     quiet |-> /\ Ok(y)
               /\ y.rots = x.rots
               /\ \A n \in x.nodes \ y.freed : y.color[n] = x.color[n]]

recordRedChild(h, node, x, y) ==
    [y EXCEPT !.log.redChild = @ \cup {redChildRecord(h, node, x, y)}]

\* Lines 309-312 after lines 296-306 have left heap x.
removeRedChildRest(h, node, x, ref) ==
    IF h.color[node] = BLACK
    THEN recordRedChild(h, node, x, removeHere(x, node, ref))
    ELSE removeHere(x, node, ref)

\* Lines 295-312: node has a red child.
removeRedChildStep(h, node, ref) ==
    removeRedChildRest(h, node, removeRedChild(h, node), ref)

\* Lines 264-312, for a node that is not null.
removeBody(h, node, ref) ==
    IF hasColorChildren(h, node, BLACK) THEN
      IF sibling(h, node) = NIL THEN removeHere(h, node, ref)
      ELSE IF hasColorChildren(h, sibling(h, node), BLACK)
        THEN removeHere(removeRecolor(h, node, sibling(h, node)), node, ref)
      ELSE removeHere(removeBelow(removeFixup(h, node, sibling(h, node)), node, ref),
                      node, ref)
    ELSE IF hasColorChild(h, node, RED) THEN removeRedChildStep(h, node, ref)
    ELSE removeHere(h, node, ref)

removeRec(h, node, ref) ==
    IF ~Ok(h) THEN h
    ELSE IF h.calls >= MaxCalls THEN Fault(h, "no termination")
    ELSE IF node = NIL THEN h
    ELSE IF ~Valid(h, node) THEN Fault(h, "remove:264 node")
    ELSE removeBody([h EXCEPT !.calls = @ + 1], node, ref)

\* Lines 489-490: a root with two black (or no) children is coloured red.
reddenRoot(h) ==
    IF hasColorChildren(h, h.root, BLACK) THEN [h EXCEPT !.color[h.root] = RED] ELSE h

\* Lines 493-494.
blackenRootIfAny(h) ==
    IF Ok(h) /\ h.root # NIL THEN SetColor(h, h.root, BLACK, "remove:494") ELSE h

\* remove(const Comparable&), lines 485-495.
remove(h, v) ==
    IF h.root = NIL THEN h
    ELSE blackenRootIfAny(removeRec(reddenRoot(h), h.root, ConstRef(v)))

\* clear(Node*&), lines 200-210: both subtrees, then the node itself.
RECURSIVE clear(_, _)
clear(h, n) ==
    IF ~Ok(h) \/ n = NIL THEN h
    ELSE IF ~Valid(h, n) THEN Fault(h, "clear:202 root")
    ELSE LET a(x) == [clear(x, x.left[n]) EXCEPT !.left[n] = NIL]
             b(x) == [clear(x, x.right[n]) EXCEPT !.right[n] = NIL]
             c(x) == IF Ok(x) THEN Delete([x EXCEPT !.parent[n] = NIL], n) ELSE x
         IN c(b(a(h)))

\* make_empty() with the root reference left as it was.
make_emptyKeepsRoot(h) == clear(h, h.root)

\* make_empty(), line 584 (and line 208 for the root reference).
make_empty(h) == [clear(h, h.root) EXCEPT !.root = NIL]

\* is_empty(), line 579.
is_empty(h) == h.root = NIL

\* doubleRed(Node*), lines 423-429.
RECURSIVE doubleRed(_, _)
doubleRed(h, n) ==
    IF n = NIL THEN FALSE
    ELSE IF h.color[n] = RED /\ hasColorChild(h, n, RED) THEN TRUE
    ELSE doubleRed(h, h.left[n]) \/ doubleRed(h, h.right[n])

\* blackHeight(const Node*), lines 431-436: counted along the left links.
RECURSIVE blackHeight(_, _)
blackHeight(h, n) ==
    IF n = NIL THEN 1
    ELSE blackHeight(h, h.left[n]) + (IF h.color[n] = BLACK THEN 1 ELSE 0)

\* followsRules(Node*), lines 416-421.
followsRulesNode(h, n) ==
    /\ ~doubleRed(h, n)
    /\ blackHeight(h, h.left[n]) = blackHeight(h, h.right[n])

\* followsRules(), lines 549-553.
followsRules(h) == IF h.root = NIL THEN TRUE ELSE followsRulesNode(h, h.root)

\* find_min(), lines 511-516.
find_min_public(h) ==
    IF h.root = NIL THEN Throws("invalid_argument")
    ELSE Returns(h.value[find_min(h, h.root)])

\* The loop of lines 527-529: the last node on the right spine below n.
RECURSIVE rightmost(_, _)
rightmost(h, n) == IF h.right[n] # NIL THEN rightmost(h, h.right[n]) ELSE n

\* find_max() with the test of line 524 inverted.
find_maxGuardInverted(h) ==
    IF h.root # NIL THEN Throws("invalid_argument") ELSE Returns(0)

\* find_max(), lines 523-532.
find_max(h) ==
    IF h.root = NIL THEN Throws("invalid_argument")
    ELSE Returns(h.value[rightmost(h, h.root)])

-----------------------------------------------------------------------------
\* AVLTree<Comparable> of "PA 3/avl_tree.h".

\* Node(value), line 53.
AvlNode(v) == [value |-> v, height |-> 1, left |-> Null, right |-> Null]

\* height(const Node*), lines 220-225.
height(t) == IF t = Null THEN 0 ELSE t.height

\* calcHeight, lines 233-235, with max of line 80.
calcHeight(t) ==
    1 + (IF height(t.left) > height(t.right) THEN height(t.left) ELSE height(t.right))

\* balace_factor, lines 243-247.
balace_factor(t) == IF t = Null THEN 0 ELSE height(t.left) - height(t.right)

\* rr_rotate, lines 255-264.
rr_rotate(t) ==
    LET temp == t.right
        a(x) == [x EXCEPT !.right = temp.left]
        b(x) == [x EXCEPT !.height = calcHeight(x)]
        c(x) == [temp EXCEPT !.left = x]
        d(x) == [x EXCEPT !.height = calcHeight(x)]
    IN d(c(b(a(t))))

\* ll_rotate, lines 272-281.
ll_rotate(t) ==
    LET temp == t.left
        a(x) == [x EXCEPT !.left = temp.right]
        b(x) == [x EXCEPT !.height = calcHeight(x)]
        c(x) == [temp EXCEPT !.right = x]
        d(x) == [x EXCEPT !.height = calcHeight(x)]
    IN d(c(b(a(t))))

\* lr_rotate, lines 289-293.
lr_rotate(t) == ll_rotate([t EXCEPT !.left = rr_rotate(t.left)])

\* rl_rotate, lines 301-305.
rl_rotate(t) == rr_rotate([t EXCEPT !.right = ll_rotate(t.right)])

\* balance, lines 313-324.  A balance factor above 1 (below -1) tells that
\* the left (right) child has a height of 2 or more and so is not null.
balance(t) ==
    LET a(x) == [x EXCEPT !.height = calcHeight(x)]
        b(x) == IF balace_factor(x) > 1
                  THEN IF balace_factor(x.left) > 0 THEN ll_rotate(x) ELSE lr_rotate(x)
                ELSE IF balace_factor(x) < 0 - 1
                  THEN IF balace_factor(x.right) > 0 THEN rl_rotate(x) ELSE rr_rotate(x)
                ELSE x
    IN b(a(t))

\* insert(Node*, const Comparable&), lines 160-172.
RECURSIVE avl_insert(_, _)
avl_insert(node, v) ==
    IF node = Null THEN AvlNode(v)
    ELSE IF v = node.value THEN node
    ELSE IF v < node.value THEN balance([node EXCEPT !.left = avl_insert(node.left, v)])
    ELSE balance([node EXCEPT !.right = avl_insert(node.right, v)])

\* find_min(Node*&), lines 332-338.
RECURSIVE avl_find_min(_)
avl_find_min(t) ==
    IF t # Null /\ t.left # Null THEN avl_find_min(t.left) ELSE t

\* remove(Node*, const Comparable&), lines 181-212.
RECURSIVE avl_remove(_, _)
avl_remove(t, v) ==
    IF t = Null THEN Null
    ELSE IF v < t.value THEN balance([t EXCEPT !.left = avl_remove(t.left, v)])
    ELSE IF v > t.value THEN balance([t EXCEPT !.right = avl_remove(t.right, v)])
    ELSE IF t.left = Null /\ t.right = Null THEN Null
    ELSE IF t.left = Null THEN t.right
    ELSE IF t.right = Null THEN t.left
    ELSE balance([t EXCEPT !.value = avl_find_min(t.right).value,
                           !.right = avl_remove(t.right, avl_find_min(t.right).value)])

-----------------------------------------------------------------------------
\* Set<Comparable> of "PA 5/my_set.h".

\* search, lines 408-414.
RECURSIVE set_search(_, _)
set_search(t, v) ==
    IF t = Null THEN Null
    ELSE IF t.value = v THEN t
    ELSE set_search(IF t.value < v THEN t.right ELSE t.left, v)

\* balance and the four rotations, lines 433-475, with height, balace_factor
\* and calcHeight, lines 373-385: statement for statement those of AVLTree.
set_balance(t) == balance(t)

\* insert(iterator, Node*, const Comparable&), lines 416-431.  The iterator
\* is the function's own copy; what is pushed on it is gone at the return.
RECURSIVE set_insert(_, _)
set_insert(node, v) ==
    IF node = Null THEN AvlNode(v)
    ELSE IF v = node.value THEN node
    ELSE IF v < node.value THEN set_balance([node EXCEPT !.left = set_insert(node.left, v)])
    ELSE set_balance([node EXCEPT !.right = set_insert(node.right, v)])

\* The node of t that holds v, as t has left it.  A node keeps its value
\* through an insert, so this is the node a pointer taken before names after.
RECURSIVE nodeOf(_, _)
nodeOf(t, v) ==
    IF t = Null THEN Null
    ELSE IF t.value = v THEN t
    ELSE IF nodeOf(t.left, v) # Null THEN nodeOf(t.left, v)
    ELSE nodeOf(t.right, v)

\* Lines 567-569: _root is assigned only when it was null; otherwise it goes
\* on naming the node it named, whatever insert has returned.
rootAfter(r, inserted) == IF r = Null THEN inserted ELSE nodeOf(inserted, r.value)

\* contains, lines 594-596.
set_contains(t, v) == set_search(t, v) # Null

-----------------------------------------------------------------------------
\* The node graph read as a tree.

\* Every node is reached once, and every link leads to a reached node.
IsTree(h) ==
    LET s == preorder(h, h.root, MaxNodes + 1) IN
    /\ Len(s) = Cardinality(Range(s))
    /\ \A n \in Range(s) : h.parent[n] \in Range(s) \cup {NIL}

\* The same heap with the reachable nodes numbered 1, 2, ... in preorder.
Canon(h) ==
    IF ~IsTree(h) THEN h
    ELSE
      LET s == preorder(h, h.root, MaxNodes + 1)
          k == Len(s)
          idx(n) == IF n = NIL THEN NIL ELSE CHOOSE i \in 1 .. k : s[i] = n
      IN [root |-> idx(h.root),
          value |-> [i \in Nodes |-> IF i <= k THEN h.value[s[i]] ELSE 0],
          color |-> [i \in Nodes |-> IF i <= k THEN h.color[s[i]] ELSE RED],
          left |-> [i \in Nodes |-> IF i <= k THEN idx(h.left[s[i]]) ELSE NIL],
          right |-> [i \in Nodes |-> IF i <= k THEN idx(h.right[s[i]]) ELSE NIL],
          parent |-> [i \in Nodes |-> IF i <= k THEN idx(h.parent[s[i]]) ELSE NIL],
          nodes |-> 1 .. k,
          freed |-> {idx(n) : n \in h.freed \cap Range(s)},
          fault |-> h.fault,
          calls |-> h.calls,
          rots |-> h.rots,
          fixes |-> h.fixes,
          log |-> h.log]

InOrder == inorder(Heap, root, MaxNodes + 1)

-----------------------------------------------------------------------------
\* The state machine.

Init ==
    /\ root = EmptyHeap.root
    /\ value = EmptyHeap.value
    /\ color = EmptyHeap.color
    /\ left = EmptyHeap.left
    /\ right = EmptyHeap.right
    /\ parent = EmptyHeap.parent
    /\ nodes = {}
    /\ freed = {}
    /\ fault = "none"
    /\ status = "running"
    /\ lastOp = "none"
    /\ lastArg = NoArg
    /\ present = {}
    /\ result = Void
    /\ ncalls = 0
    /\ calls = 0
    /\ fixes = {}
    /\ log = NoSteps
    /\ avl_root = Null
    /\ set_root = Null
    /\ set_size = 0

\* The heap a public call leaves behind, and the outcome of the call.
Commit(h) ==
    LET c == Canon(h) IN
    /\ root' = c.root
    /\ value' = c.value
    /\ color' = c.color
    /\ left' = c.left
    /\ right' = c.right
    /\ parent' = c.parent
    /\ nodes' = c.nodes
    /\ freed' = c.freed
    /\ fault' = c.fault
    /\ IF Ok(c) THEN status' = "running" ELSE status' \in UBOutcomes

\* An insert that hands a status back to its caller.
InsertReturnsStatus(h, cap) ==
    /\ status = "running"
    /\ h.fault # "capacity"
    /\ Commit(h)
    /\ Cardinality(nodes') <= cap
    /\ lastOp' = "insert"
    /\ result' = ReturnsBool(Cardinality(h.nodes) > Cardinality(nodes))
    /\ UNCHANGED <<avl_root, set_root, set_size>>

\* The return of tree.insert(v) with the heap h; the call is taken when it
\* leaves at most cap nodes.
InsertReturn(h, cap) ==
    /\ status = "running"
    /\ h.fault # "capacity"
    /\ Commit(h)
    /\ Cardinality(nodes') <= cap
    /\ lastOp' = "insert"
    /\ result' = Void
    /\ UNCHANGED <<avl_root, set_root, set_size>>

\* tree.insert(v)
InsertCall(v, cap) == InsertReturn(insert(Heap, v), cap)

\* The return of tree.remove(v) with the heap h.
RemoveReturn(h) ==
    /\ status = "running"
    /\ Commit(h)
    /\ lastOp' = "remove"
    /\ result' = Void
    /\ UNCHANGED <<avl_root, set_root, set_size>>

\* tree.remove(v)
RemoveCall(v) == RemoveReturn(remove(Heap, v))

\* The calls with only their name recorded.
Insert(v) == InsertCall(v, MaxLive) /\ UNCHANGED <<lastArg, present, ncalls, calls, fixes, log>>

Remove(v) == RemoveCall(v) /\ UNCHANGED <<lastArg, present, ncalls, calls, fixes, log>>

Next ==
    \/ \E v \in Values : Insert(v)
    \/ \E v \in Values : Remove(v)

Spec == Init /\ [][Next]_vars

\* The same calls with their argument and the set of values recorded.
InsertH(v) ==
    InsertCall(v, MaxLive) /\ lastArg' = v /\ present' = present \cup {v} /\ UNCHANGED <<ncalls, calls, fixes, log>>

RemoveH(v) ==
    RemoveCall(v) /\ lastArg' = v /\ present' = present \ {v} /\ UNCHANGED <<ncalls, calls, fixes, log>>

NextHistory ==
    \/ \E v \in Values : InsertH(v)
    \/ \E v \in Values : RemoveH(v)

SpecHistory == Init /\ [][NextHistory]_vars

\* Runs that only insert, over more keys.
InsertOnly(v) ==
    InsertCall(v, MaxInsLive) /\ lastArg' = v /\ present' = present \cup {v} /\ UNCHANGED <<ncalls, calls, fixes, log>>

NextInsert == \E v \in InsValues : InsertOnly(v)

SpecInsert == Init /\ [][NextInsert]_vars

\* Runs that insert the values of a set one by one, each once.
InsertNew(v) == v \notin present /\ InsertOnly(v)

NextPermutation == \E v \in InsValues : InsertNew(v)

SpecPermutation == Init /\ [][NextPermutation]_vars

\* Runs of at most MaxOps calls over more keys and with more nodes.
InsertD(v) ==
    /\ ncalls < MaxOps
    /\ InsertCall(v, MaxDeepLive)
    /\ lastArg' = v
    /\ present' = present \cup {v}
    /\ ncalls' = ncalls + 1
    /\ UNCHANGED <<calls, fixes, log>>

RemoveD(v) ==
    /\ ncalls < MaxOps
    /\ RemoveCall(v)
    /\ lastArg' = v
    /\ present' = present \ {v}
    /\ ncalls' = ncalls + 1
    /\ UNCHANGED <<calls, fixes, log>>

NextDeep ==
    \/ \E v \in DeepValues : InsertD(v)
    \/ \E v \in DeepValues : RemoveD(v)

SpecDeep == Init /\ [][NextDeep]_vars

\* The run of the fifth scenario, insert 0, 1, ..., 10 and remove 0, 1, ..., 10,
\* and the runs that take the same calls with the removes started earlier.
ScenarioValues == 0 .. 10

\* The numbers of inserts and of removes made so far in such a run.
Inserted == (ncalls + Cardinality(present)) \div 2

Removed == ncalls - Inserted

ScenarioInsert ==
    /\ Inserted \in ScenarioValues
    /\ InsertCall(Inserted, MaxNodes)
    /\ lastArg' = Inserted
    /\ present' = present \cup {Inserted}
    /\ ncalls' = ncalls + 1
    /\ UNCHANGED <<calls, fixes, log>>

ScenarioRemove ==
    /\ Removed < Inserted
    /\ RemoveCall(Removed)
    /\ lastArg' = Removed
    /\ present' = present \ {Removed}
    /\ ncalls' = ncalls + 1
    /\ UNCHANGED <<calls, fixes, log>>

NextScenario == ScenarioInsert \/ ScenarioRemove

SpecScenario == Init /\ [][NextScenario]_vars

\* Runs of at most MaxDescentOps calls with their argument, the set of values
\* and the number of their recursive calls recorded.
InsertC(v) ==
    LET h == insert(Heap, v) IN
    /\ ncalls < MaxDescentOps
    /\ InsertReturn(h, MaxLive)
    /\ calls' = h.calls
    /\ fixes' = h.fixes
    /\ ncalls' = ncalls + 1
    /\ lastArg' = v
    /\ present' = present \cup {v}
    /\ UNCHANGED log

RemoveC(v) ==
    LET h == remove(Heap, v) IN
    /\ ncalls < MaxDescentOps
    /\ RemoveReturn(h)
    /\ calls' = h.calls
    /\ fixes' = h.fixes
    /\ ncalls' = ncalls + 1
    /\ lastArg' = v
    /\ present' = present \ {v}
    /\ UNCHANGED log

NextDescent ==
    \/ \E v \in Values : InsertC(v)
    \/ \E v \in Values : RemoveC(v)

SpecDescent == Init /\ [][NextDescent]_vars

\* Runs of at most ops calls over the keys of SpecDeep, with the steps of
\* each call recorded.
InsertS(v, ops) ==
    LET h == insert(Heap, v) IN
    /\ ncalls < ops
    /\ InsertReturn(h, MaxDeepLive)
    /\ log' = h.log
    /\ ncalls' = ncalls + 1
    /\ lastArg' = v
    /\ present' = present \cup {v}
    /\ UNCHANGED <<calls, fixes>>

RemoveS(v, ops) ==
    LET h == remove(Heap, v) IN
    /\ ncalls < ops
    /\ RemoveReturn(h)
    /\ log' = h.log
    /\ ncalls' = ncalls + 1
    /\ lastArg' = v
    /\ present' = present \ {v}
    /\ UNCHANGED <<calls, fixes>>

NextSteps ==
    \/ \E v \in DeepValues : InsertS(v, MaxStepOps)
    \/ \E v \in DeepValues : RemoveS(v, MaxStepOps)

SpecSteps == Init /\ [][NextSteps]_vars

\* tree.make_empty()
MakeEmpty ==
    LET h == make_empty(Heap) IN
    /\ status = "running"
    /\ ncalls < MaxLifeOps
    /\ Commit(h)
    /\ lastOp' = "make_empty"
    /\ result' = Void
    /\ UNCHANGED <<avl_root, set_root, set_size>>
    /\ log' = h.log
    /\ ncalls' = ncalls + 1
    /\ lastArg' = NoArg
    /\ present' = {}
    /\ UNCHANGED <<calls, fixes>>

\* Runs of at most MaxLifeOps such calls with make_empty() between them.
NextLife ==
    \/ \E v \in DeepValues : InsertS(v, MaxLifeOps)
    \/ \E v \in DeepValues : RemoveS(v, MaxLifeOps)
    \/ MakeEmpty

SpecLife == Init /\ [][NextLife]_vars

\* Runs that only insert, over the keys of SpecInsert, with the steps of each
\* call recorded.
InsertG(v) ==
    LET h == insert(Heap, v) IN
    /\ InsertReturn(h, MaxInsLive)
    /\ log' = h.log
    /\ lastArg' = v
    /\ present' = present \cup {v}
    /\ UNCHANGED <<ncalls, calls, fixes>>

NextGrow == \E v \in InsValues : InsertG(v)

SpecGrow == Init /\ [][NextGrow]_vars

\* AVLTree::insert(value), lines 388-390, and AVLTree::remove(value), lines
\* 397-399, on the keys 0 .. MaxAvlVal-1.
AvlCall(name, v, t) ==
    /\ avl_root' = t
    /\ lastOp' = name
    /\ lastArg' = v
    /\ result' = Void
    /\ UNCHANGED <<root, value, color, left, right, parent, nodes, freed, fault,
                   status, ncalls, calls, fixes, log, set_root, set_size>>

AvlInsert(v) ==
    AvlCall("insert", v, avl_insert(avl_root, v)) /\ present' = present \cup {v}

AvlRemove(v) ==
    AvlCall("remove", v, avl_remove(avl_root, v)) /\ present' = present \ {v}

NextAvl ==
    \/ \E v \in 0 .. (MaxAvlVal - 1) : AvlInsert(v)
    \/ \E v \in 0 .. (MaxAvlVal - 1) : AvlRemove(v)

SpecAvl == Init /\ [][NextAvl]_vars

\* Set::insert(value), lines 561-573, on the keys 0 .. MaxSetVal-1, at most
\* MaxSetOps times.
SetInsert(v) ==
    /\ ncalls < MaxSetOps
    /\ ncalls' = ncalls + 1
    /\ IF set_search(set_root, v) # Null
       THEN /\ result' = ReturnsBool(FALSE)
            /\ UNCHANGED <<set_root, set_size>>
       ELSE /\ set_root' = rootAfter(set_root, set_insert(set_root, v))
            /\ set_size' = set_size + 1
            /\ result' = ReturnsBool(TRUE)
    /\ lastOp' = "insert"
    /\ lastArg' = v
    /\ present' = present \cup {v}
    /\ UNCHANGED <<root, value, color, left, right, parent, nodes, freed, fault,
                   status, calls, fixes, log, avl_root>>

NextSet == \E v \in 0 .. (MaxSetVal - 1) : SetInsert(v)

SpecSet == Init /\ [][NextSet]_vars

\* The const member functions leave the object as it is.
Query(name) ==
    /\ status = "running"
    /\ lastOp' = name
    /\ lastArg' = NoArg
    /\ UNCHANGED <<root, value, color, left, right, parent, nodes, freed, fault,
                   status, present, ncalls, calls, fixes, log,
                   avl_root, set_root, set_size>>

\* tree.find_min()
FindMin == Query("find_min") /\ result' = find_min_public(Heap)

\* tree.find_max()
FindMax == Query("find_max") /\ result' = find_max(Heap)

\* tree.followsRules()
FollowsRules == Query("followsRules") /\ result' = ReturnsBool(followsRules(Heap))

\* Inserts and removes with the queries between them.
NextQuery ==
    \/ \E v \in Values : InsertH(v)
    \/ \E v \in Values : RemoveH(v)
    \/ FindMin
    \/ FindMax
    \/ FollowsRules

SpecQuery == Init /\ [][NextQuery]_vars

\* The runs of SpecDescent with find_min() and find_max() between the calls.
NextCalls ==
    \/ \E v \in Values : InsertC(v)
    \/ \E v \in Values : RemoveC(v)
    \/ FindMin
    \/ FindMax

SpecCalls == Init /\ [][NextCalls]_vars

-----------------------------------------------------------------------------
\* What the claims speak of.

\* The last call has returned.
Completed == status = "running" /\ lastOp # "none"

EqualBlackHeights == Cardinality(BlackCounts(Heap, root, MaxNodes + 1)) = 1

IsRed(n) == n # NIL /\ color[n] = RED

NoRedRed == \A n \in nodes : IsRed(n) => ~IsRed(left[n]) /\ ~IsRed(right[n])

StrictlyIncreasing(s) == \A i \in 1 .. Len(s) - 1 : s[i] < s[i + 1]

\* s with every occurrence of v left out.
RECURSIVE Without(_, _)
Without(s, v) ==
    IF s = <<>> THEN <<>>
    ELSE IF Head(s) = v THEN Without(Tail(s), v)
    ELSE <<Head(s)>> \o Without(Tail(s), v)

\* The node graph: everything but the history.
Tree == <<root, value, color, left, right, parent, nodes, freed>>

\* C1: after each insert and remove that completes, every path from the root
\* to an absent child passes through the same number of black nodes.
CE_C1 == Completed => EqualBlackHeights

\* C2: after each insert and remove that completes, no red node has a red
\* child.
CE_C2 == Completed => NoRedRed

\* C3: after each insert and remove that completes, the in-order traversal is
\* strictly increasing (which also says that no value is held twice).
CE_C3 == Completed => StrictlyIncreasing(InOrder)

\* C4: after each insert and remove that completes, contains(v) is true
\* exactly for the values inserted and not removed since.
CE_C4 == Completed => \A v \in Values : contains(Heap, v) <=> v \in present

\* C5: no insert and no remove on a reachable tree dereferences an absent
\* node; every call completes normally.
CE_C5 == fault = "none"

\* C6: a remove(v) of a value v held by the tree that returns has removed
\* exactly v: the in-order traversal is the one before with v left out.
CE_C6 ==
    [][(lastOp' = "remove" /\ lastArg' \in Range(InOrder) /\ status' = "running")
          => InOrder' = Without(InOrder, lastArg')]_vars

\* C7: once every inserted value has been removed again, the tree is empty:
\* the remove has returned and is_empty() is true.
CE_C7 ==
    (lastOp = "remove" /\ present = {}) => (status = "running" /\ is_empty(Heap))

\* C8: after every insert, and after every remove that leaves a root, the
\* root is black.
Thm_C8 == (Completed /\ root # NIL) => color[root] = BLACK

\* A remove has returned from a tree of at least three nodes, and line 494
\* has painted its root black.
Wit_C8 ==
    /\ Completed
    /\ lastOp = "remove"
    /\ root # NIL
    /\ color[root] = BLACK
    /\ Cardinality(nodes) >= 3

\* C9: inserting a value that is already present changes nothing: shape,
\* colours, values and links are the same before and after, and no node is
\* created.
CE_C9 ==
    [][(lastOp' = "insert" /\ lastArg' \in Range(InOrder)) => Tree' = Tree]_vars

\* C10: removing a value that is not present changes nothing: shape, colours,
\* values and links are the same before and after.
CE_C10 ==
    [][(lastOp' = "remove" /\ lastArg' \notin Range(InOrder)) => Tree' = Tree]_vars

\* The least and the greatest element of a non-empty set of values.
Least(S) == CHOOSE x \in S : \A y \in S : x <= y

Greatest(S) == CHOOSE x \in S : \A y \in S : y <= x

\* C11: on a non-empty tree find_min() returns the smallest and find_max() the
\* largest of the values inserted and not removed since.
CE_C11 ==
    /\ (lastOp = "find_min" /\ root # NIL)
          => (present # {} /\ result = Returns(Least(present)))
    /\ (lastOp = "find_max" /\ root # NIL)
          => (present # {} /\ result = Returns(Greatest(present)))

IsQuery(op) == op \in {"find_min", "find_max"}

\* C12: find_min() and find_max() on a tree without root throw
\* invalid_argument and leave the tree empty and as it was; on a tree with a
\* root they return a value and throw nothing.
Thm_C12 ==
    [][IsQuery(lastOp') =>
         /\ Tree' = Tree
         /\ status' = "running"
         /\ IF root = NIL
            THEN result' = Throws("invalid_argument") /\ is_empty(Heap)'
            ELSE result'.kind = "value"]_vars

\* find_max() has thrown on the empty tree.
Wit_C12 ==
    lastOp = "find_max" /\ root = NIL /\ nodes = {} /\ result = Throws("invalid_argument")

\* The values of S in ascending order.
RECURSIVE Ascending(_)
Ascending(S) == IF S = {} THEN <<>> ELSE <<Least(S)>> \o Ascending(S \ {Least(S)})

\* C13: whatever the order in which the values of a set are inserted into an
\* empty tree, the in-order traversal is the set in ascending order.
CE_C13 == Completed => InOrder = Ascending(present)

\* The number of nodes on the longest path from n down to a leaf.
RECURSIVE Height(_, _, _)
Height(h, n, fuel) ==
    IF n = NIL \/ fuel = 0 THEN 0
    ELSE LET l == Height(h, h.left[n], fuel - 1)
             r == Height(h, h.right[n], fuel - 1)
         IN 1 + (IF l < r THEN r ELSE l)

\* C14: with n values in the tree the longest root-to-leaf path has at most
\* 2*log2(n+1) nodes; for a path of H nodes that is 2^H <= (n+1)^2.
CE_C14 ==
    Completed =>
      2 ^ Height(Heap, root, MaxNodes + 1) <= (Len(InOrder) + 1) * (Len(InOrder) + 1)

\* The run is the scenario's own: no remove yet, or all the inserts made.
OnScenario == Removed = 0 \/ Inserted = Cardinality(ScenarioValues)

\* C15: inserting 0, 1, ..., 10 and then removing 0, 1, ..., 10 keeps the four
\* invariants after every one of the 22 calls: each call returns, the root
\* is black, no red node has a red child, the black heights are equal and
\* the in-order traversal is the ascending sequence of the values inserted and
\* not yet removed.
CE_C15 ==
    (ncalls > 0 /\ OnScenario) =>
      /\ status = "running"
      /\ root # NIL => color[root] = BLACK
      /\ NoRedRed
      /\ EqualBlackHeights
      /\ InOrder = Ascending(present)

\* C16: followsRules() returns true exactly when no red node has a red child
\* and the black heights agree at every node, so it returns false whenever
\* two paths from the root to an absent child differ in their black nodes.
CE_C16 ==
    lastOp = "followsRules" => (result.flag <=> (NoRedRed /\ EqualBlackHeights))

IsUpdate(op) == op \in {"insert", "remove"}

CE_C19 ==
    [][(lastOp' = "insert" /\ status' = "running" /\ StrictlyIncreasing(InOrder))
          => InOrder' = Ascending(Range(InOrder) \cup {lastArg'})]_vars

\* C20: in the fix-up of lines 282-293, entered with the rules holding below
\* the parent of node: when the nephew on the side of node is red there are
\* two rotations, when it is not but the nephew on the other side is red
\* there is one, and in both cases the fix-up completes and the rotated
\* subtree has equal black heights and no red node with a red child.
CE_C20 ==
    \A f \in fixes :
      (f.rulesBefore /\ (f.nearRed \/ f.farRed)) =>
        /\ f.returned
        /\ f.rotations = (IF f.nearRed THEN 2 ELSE 1)
        /\ f.rulesAfter

\* C21: when remove recolours at lines 273-274 (the node, not the root, and
\* its sibling both have two black or absent children) in a tree that keeps
\* the rules, every path through the parent has as many black nodes after
\* the step as before.  (Under a black parent that holds only when node and
\* sibling are red already and the step changes nothing.)
CE_C21 == \A r \in log.recolor : r.rulesBefore => r.pathsSame

\* C22: when a black node of a tree that keeps the rules has a red child and
\* remove takes lines 296-306: no rotation is made about a parent whose
\* child on the other side of node is absent; the node is black afterwards
\* and, unless it is the root, its grandparent black and its parent red;
\* every path through these nodes keeps its number of black nodes; and the
\* rest of the call neither rotates nor recolours.
CE_C22 ==
    \A r \in log.redChild :
      r.rulesBefore => (~r.rotatesAbsent /\ r.colours /\ r.pathsSame /\ r.quiet)

\* C23: every rotation case of insert, the one at a red parent without
\* sibling (lines 328-337 and 346-355) and the four patterns after a colour
\* flip (lines 365-394), leaves a black subroot whose two children exist and
\* are red; and after the case without sibling the call changes nothing
\* more.
Thm_C23 ==
    \A r \in log.rotated : r.shape /\ (r.kind = "no sibling" => r.last)

\* An insert has flipped the colours of a right child under a red left
\* child, rotated twice (lines 380-383) and returned.
Wit_C23 ==
    /\ Completed
    /\ lastOp = "insert"
    /\ \E r \in log.rotated : r.kind = "LR" /\ r.shape

\* C24: a rotation about a node whose rotated-toward child exists changes
\* neither the number of nodes of the tree, nor the value or the colour of
\* any node, nor the in-order sequence of the values of the whole tree.
Thm_C24 == \A r \in log.rotation : r.sameCount /\ r.sameFields /\ r.sameOrder

\* A left rotation has been made below the root about a node whose right
\* child had a left subtree.
Wit_C24 ==
    \E r \in log.rotation :
      r.kind = "left" /\ ~r.atRoot /\ r.hasInner /\ r.sameOrder /\ r.sameFields

\* C25: rotateLeft(x) with right child y, and rotateRight(x) with left child
\* y, returns y and leaves y where x was (the root reference names y when x
\* was the root, and else the child link of x's parent that named x), with
\* x the child of y on the side of the rotation and the former inner subtree
\* of y the inner child of x.
Thm_C25 ==
    \A r \in log.rotation :
      r.returnsChild /\ r.inPlace /\ r.nodeBelow /\ r.innerMoved

\* A right rotation has been made below the root about a node whose left
\* child had a right subtree.
Wit_C25 ==
    \E r \in log.rotation :
      r.kind = "right" /\ ~r.atRoot /\ r.hasInner /\ r.returnsChild /\ r.inPlace

\* C26: after every insert and remove that returns, and after every single
\* rotation, each child reached from the root names the node it hangs from
\* as its parent, and the root names none.
Thm_C26 ==
    /\ Completed => parentsAgree(Heap)
    /\ \A r \in log.rotation : r.parents

\* A remove that rotated has returned and left three nodes or more.
Wit_C26 ==
    /\ Completed
    /\ lastOp = "remove"
    /\ Cardinality(nodes) >= 3
    /\ \E r \in log.rotation : r.parents
    /\ parentsAgree(Heap)

\* C27: a node that remove deallocates is a leaf when it is detached; a node
\* with two children is never detached itself: its value changes places
\* with that of its in-order successor, the leftmost node of its right
\* subtree, and the removal goes on at that node.
Thm_C27 ==
    /\ \A d \in log.deleted : d.leaf
    /\ \A r \in log.swapped : r.two => (r.successor /\ r.exchanged /\ r.kept)

\* A remove has met its value in a node with two children, exchanged it with
\* the successor's, deleted one leaf and returned.
Wit_C27 ==
    /\ Completed
    /\ lastOp = "remove"
    /\ log.deletes = 1
    /\ \E r \in log.swapped : r.two /\ r.successor /\ r.kept
    /\ \E d \in log.deleted : d.leaf

\* C28: over the runs of insert, remove and make_empty no node is deleted
\* twice; a remove that finds its value and returns deletes exactly one
\* node, and no remove deletes more; make_empty deletes every node of the
\* tree; and after a call that returns neither the root reference nor a
\* link of a node of the tree names a deleted node.
Thm_C28 ==
    [][/\ \A d \in log'.deleted : ~d.again
       /\ status' = "running" => freed' = {} /\ IsTree(Heap)'
       /\ (lastOp' = "remove" /\ status' = "running")
             => log'.deletes = (IF contains(Heap, lastArg') THEN 1 ELSE 0)
       /\ lastOp' = "insert" => log'.deletes = 0
       /\ lastOp' = "make_empty"
             => log'.deletes = Cardinality(nodes) /\ nodes' = {}]_vars

\* make_empty() has deleted a tree of three nodes or more.
Wit_C28 ==
    /\ Completed
    /\ lastOp = "make_empty"
    /\ log.deletes >= 3
    /\ root = NIL
    /\ freed = {}

\* The number of nodes on the longest path from t down, the values of t in
\* order, and the number of its nodes.
RECURSIVE TreeHeight(_)
TreeHeight(t) ==
    IF t = Null THEN 0
    ELSE 1 + (IF TreeHeight(t.left) > TreeHeight(t.right)
              THEN TreeHeight(t.left) ELSE TreeHeight(t.right))

RECURSIVE TreeInOrder(_)
TreeInOrder(t) ==
    IF t = Null THEN <<>> ELSE TreeInOrder(t.left) \o <<t.value>> \o TreeInOrder(t.right)

\* At every node of t the two subtrees differ in height by at most 1.
RECURSIVE Balanced(_)
Balanced(t) ==
    \/ t = Null
    \/ /\ TreeHeight(t.left) - TreeHeight(t.right) \in {0 - 1, 0, 1}
       /\ Balanced(t.left)
       /\ Balanced(t.right)

\* Every node of t stores its height.
RECURSIVE HeightsStored(_)
HeightsStored(t) ==
    \/ t = Null
    \/ /\ t.height = TreeHeight(t)
       /\ HeightsStored(t.left)
       /\ HeightsStored(t.right)

\* C29: after every insert and remove of an AVLTree that started empty, the
\* subtrees of every node differ in height by at most 1, every node stores
\* its height, and the in-order traversal is the ascending sequence of the
\* values inserted and not removed.
CE_C29 ==
    /\ Balanced(avl_root)
    /\ HeightsStored(avl_root)
    /\ TreeInOrder(avl_root) = Ascending(present)

\* C30: after every Set::insert on a Set that started empty, contains(v) is
\* true for every value inserted so far, and size() is the number of nodes
\* reached from the root.
CE_C30 ==
    /\ \A v \in present : set_contains(set_root, v)
    /\ set_size = Len(TreeInOrder(set_root))

====
